---- MODULE Spec2Model ----
(***************************************************************************)
(* Model of the mandelbrust fractal engine: the pixel <-> complex          *)
(* Transform (src/src/types.rs), the escape-time evaluator, the serial and *)
(* the threaded image generators and the histogram equalizer               *)
(* (src/src/mandelbrot.rs).                                                *)
(*                                                                         *)
(* Numbers.  The program computes in f64.  TLC has bounded integers only,  *)
(* so an f64 is modelled as a binary floating-point number m * 2^e whose   *)
(* mantissa has Precision bits (53 in the program) and whose exponent is   *)
(* unbounded; every operation rounds its exact result to the nearest       *)
(* representable value, ties to even, as IEEE 754 does.  What the model    *)
(* keeps of f64 is that results are rounded; what it drops is overflow to  *)
(* infinity, underflow and the sign of zero.                               *)
(***************************************************************************)
EXTENDS Integers, Sequences, FiniteSets, TLC

\* Mantissa width of the modelled floating-point numbers.
Precision == 10

----------------------------------------------------------------------------
(* Floating point                                                          *)

Abs(n) == IF n < 0 THEN -n ELSE n

Sign(n) == IF n < 0 THEN -1 ELSE IF n > 0 THEN 1 ELSE 0

Min(a, b) == IF a < b THEN a ELSE b

Max(a, b) == IF a > b THEN a ELSE b

RECURSIVE BitLen(_)
BitLen(a) == IF a = 0 THEN 0 ELSE 1 + BitLen(a \div 2)

\* A finite float m * 2^e: m = 0 and e = 0, or 2^(Precision-1) <= |m| < 2^Precision.
Fin(m, e) == [cls |-> "fin", m |-> m, e |-> e]

Zero == Fin(0, 0)

NaN == [cls |-> "nan", m |-> 0, e |-> 0]

\* Infinity with sign s.
Inf(s) == [cls |-> "inf", m |-> s, e |-> 0]

IsFin(x) == x.cls = "fin"

\* The float nearest to the exact value n * 2^e, ties to even.
FRound(n, e) ==
    IF n = 0 THEN Zero
    ELSE LET a   == Abs(n)
             len == BitLen(a)
         IN  IF len <= Precision
             THEN Fin(n * 2^(Precision - len), e - (Precision - len))
             ELSE LET k    == len - Precision
                      q    == a \div 2^k
                      r    == a % 2^k
                      half == 2^(k - 1)
                      q1   == IF r > half \/ (r = half /\ q % 2 = 1) THEN q + 1 ELSE q
                  IN  IF q1 = 2^Precision
                      THEN Fin(Sign(n) * 2^(Precision - 1), e + k + 1)
                      ELSE Fin(Sign(n) * q1, e + k)

\* `n as f64`
FromInt(n) == FRound(n, 0)

FNeg(x) == [x EXCEPT !.m = -x.m]

\* x * y
FMul(x, y) ==
    IF x.cls = "nan" \/ y.cls = "nan" THEN NaN
    ELSE IF x.cls = "inf" \/ y.cls = "inf"
         THEN IF x.m = 0 \/ y.m = 0 THEN NaN ELSE Inf(Sign(x.m) * Sign(y.m))
         ELSE FRound(x.m * y.m, x.e + y.e)

\* x + y.  When the exponents are more than Precision + 2 apart the smaller
\* operand is below a quarter of the last place of the larger one.
FAdd(x, y) ==
    IF x.cls = "nan" \/ y.cls = "nan" THEN NaN
    ELSE IF x.cls = "inf" \/ y.cls = "inf"
         THEN IF x.cls = "inf" /\ y.cls = "inf" /\ x.m # y.m THEN NaN
              ELSE IF x.cls = "inf" THEN x ELSE y
    ELSE IF x.m = 0 THEN y
    ELSE IF y.m = 0 THEN x
    ELSE LET hi == IF x.e >= y.e THEN x ELSE y
             lo == IF x.e >= y.e THEN y ELSE x
             d  == hi.e - lo.e
         IN  IF d > Precision + 2 THEN hi
             ELSE FRound(hi.m * 2^d + lo.m, lo.e)

\* x - y
FSub(x, y) == FAdd(x, FNeg(y))

\* x / y.  The quotient is taken to Precision + 2 bits and a sticky bit.
FDiv(x, y) ==
    IF x.cls = "nan" \/ y.cls = "nan" THEN NaN
    ELSE IF x.cls = "inf" THEN (IF y.cls = "inf" THEN NaN
                                ELSE Inf(x.m * (IF y.m < 0 THEN -1 ELSE 1)))
    ELSE IF y.cls = "inf" THEN Zero
    ELSE IF y.m = 0 THEN (IF x.m = 0 THEN NaN ELSE Inf(Sign(x.m)))
    ELSE IF x.m = 0 THEN Zero
    ELSE LET num == Abs(x.m) * 2^(Precision + 2)
             den == Abs(y.m)
             q   == num \div den
             st  == IF num % den = 0 THEN 0 ELSE 1
         IN  FRound(Sign(x.m) * Sign(y.m) * (2 * q + st),
                    x.e - y.e - (Precision + 2) - 1)

\* The decimal literal n/d (n, d small integers), correctly rounded.
Lit(n, d) == FDiv(FromInt(n), FromInt(d))

\* x < y, false when either is NaN.
FLt(x, y) ==
    IF x.cls = "nan" \/ y.cls = "nan" THEN FALSE
    ELSE IF x.cls = "inf" \/ y.cls = "inf"
         THEN IF x.cls = "inf" /\ y.cls = "inf" THEN x.m < y.m
              ELSE IF x.cls = "inf" THEN x.m < 0 ELSE y.m > 0
    ELSE IF Sign(x.m) # Sign(y.m) THEN Sign(x.m) < Sign(y.m)
    ELSE IF x.m = 0 THEN FALSE
    ELSE IF x.m > 0 THEN x.e < y.e \/ (x.e = y.e /\ x.m < y.m)
    ELSE y.e < x.e \/ (x.e = y.e /\ x.m < y.m)

\* x <= y, false when either is NaN.
FLe(x, y) == x.cls # "nan" /\ y.cls # "nan" /\ ~FLt(y, x)

\* Largest r with r * r <= n.
RECURSIVE ISqrtIn(_, _, _)
ISqrtIn(n, lo, hi) ==
    IF lo >= hi THEN lo
    ELSE LET mid == (lo + hi + 1) \div 2
         IN  IF mid * mid <= n THEN ISqrtIn(n, mid, hi) ELSE ISqrtIn(n, lo, mid - 1)

ISqrt(n) == ISqrtIn(n, 0, 2^(Precision + 3))

\* x.sqrt(): the root is taken to Precision + 2 bits and a sticky bit.
FSqrt(x) ==
    IF x.cls = "nan" THEN NaN
    ELSE IF x.m < 0 THEN NaN
    ELSE IF x.cls = "inf" \/ x.m = 0 THEN x
    ELSE LET k  == IF (x.e - (Precision + 4)) % 2 = 0 THEN Precision + 4 ELSE Precision + 3
             n  == x.m * 2^k
             r  == ISqrt(n)
             st == IF r * r = n THEN 0 ELSE 1
         IN  FRound(2 * r + st, ((x.e - k) \div 2) - 1)

\* `x as i32`: truncation toward zero, saturating, NaN to 0.
AsI32(x) ==
    IF x.cls = "nan" THEN 0
    ELSE IF x.cls = "inf" THEN (IF x.m > 0 THEN 2147483647 ELSE -2147483647 - 1)
    ELSE IF x.m = 0 THEN 0
    ELSE IF x.e >= 0
         THEN IF x.e > 31 - Precision
              THEN (IF x.m > 0 THEN 2147483647 ELSE -2147483647 - 1)
              ELSE x.m * 2^(x.e)
         ELSE IF -x.e >= 31 THEN 0
              ELSE Sign(x.m) * (Abs(x.m) \div 2^(-x.e))

\* `x.round() as u32`: nearest integer, ties away from zero; the cast
\* saturates, so a negative value and NaN give 0.  Values above 2^31 - 1,
\* which no table entry comes near, are given as 2^31 - 1.
RoundAsU32(x) ==
    IF x.cls = "nan" THEN 0
    ELSE IF x.cls = "inf" THEN (IF x.m > 0 THEN 2147483647 ELSE 0)
    ELSE IF x.m <= 0 THEN 0
    ELSE IF x.e >= 0
         THEN IF x.e > 31 - Precision THEN 2147483647 ELSE x.m * 2^(x.e)
         ELSE IF -x.e >= 31 THEN 0
              ELSE (x.m + 2^(-x.e - 1)) \div 2^(-x.e)

----------------------------------------------------------------------------
(* types.rs: Transform                                                     *)

One == FromInt(1)

Two == FromInt(2)

\* A complex number, num::complex::Complex<f64>.
Complex(re, im) == [re |-> re, im |-> im]

\* Transform::reset
reset(t) ==
    [t EXCEPT !.scale = FMul(FromInt(t.window_size[1]), Lit(28, 100)),
              !.x     = FMul(FromInt(t.window_size[1]), Lit(7, 10)),
              !.y     = FMul(FromInt(t.window_size[2]), Lit(5, 10))]

\* Transform::new
Transform_new(window_size) ==
    reset([x |-> Zero, y |-> Zero, scale |-> One, window_size |-> window_size])

\* Transform::pos_to_complex
pos_to_complex(t, x, y) ==
    Complex(FDiv(FSub(FromInt(x), t.x), t.scale),
            FDiv(FSub(FSub(FromInt(t.window_size[2]), FromInt(y)), t.y), t.scale))

\* _complex_to_point without the flip of the vertical axis.
_complex_to_point_unflipped(t, z) ==
    << AsI32(FAdd(FMul(z.re, t.scale), t.x)),
       AsI32(FAdd(FMul(z.im, t.scale), t.y)) >>

\* Transform::_complex_to_point
_complex_to_point(t, z) ==
    << AsI32(FAdd(FMul(z.re, t.scale), t.x)),
       AsI32(FNeg(FAdd(FMul(z.im, t.scale), t.y))) + t.window_size[2] >>

\* zoom_factor relative to the window height.
zoom_factor_height(t) == FDiv(t.scale, FMul(FromInt(t.window_size[2]), Lit(28, 100)))

\* Transform::zoom_factor
zoom_factor(t) == FDiv(t.scale, FMul(FromInt(t.window_size[1]), Lit(28, 100)))

\* Transform::zoom
zoom(t, factor) ==
    LET z_center == pos_to_complex(t, t.window_size[1] \div 2, t.window_size[2] \div 2)
        scale    == FMul(t.scale, factor)
    IN  [t EXCEPT !.scale = scale,
                  !.x = FSub(FDiv(FromInt(t.window_size[1]), Two), FMul(z_center.re, scale)),
                  !.y = FSub(FDiv(FromInt(t.window_size[2]), Two), FMul(z_center.im, scale))]

\* Transform::center_at
center_at(t, z) ==
    [t EXCEPT !.x = FSub(FDiv(FromInt(t.window_size[1]), Two), FMul(z.re, t.scale)),
              !.y = FSub(FDiv(FromInt(t.window_size[2]), Two), FMul(z.im, t.scale))]

----------------------------------------------------------------------------
(* types.rs: MandelPixel, MandelImage                                      *)

\* MandelPixel::new
MandelPixel_new(x, y) ==
    [x |-> x, y |-> y, iterations |-> 0, iterations_equalized |-> 0]

\* MandelImage::new: the pixels are pushed row by row, so the pixel (x, y)
\* is the element x + y * width of data (data[x + y * width + 1] here).
MandelImage_new(width, height, max_iterations) ==
    [width |-> width, height |-> height, max_iterations |-> max_iterations,
     data |-> [k \in 1..(width * height) |->
                  MandelPixel_new((k - 1) % width, (k - 1) \div width)]]

\* set_iterations writing both fields of the pixel.
set_iterations_both(image, rows, iters) ==
    [image EXCEPT !.data =
        [k \in DOMAIN image.data |->
            IF rows[1] * image.width < k /\ k <= rows[1] * image.width + Len(iters)
            THEN [image.data[k] EXCEPT
                     !.iterations = iters[k - rows[1] * image.width],
                     !.iterations_equalized = iters[k - rows[1] * image.width]]
            ELSE image.data[k]]]

\* set_iterations with the row start taken for the start index.
set_iterations_row_start(image, rows, iters) ==
    [image EXCEPT !.data =
        [k \in DOMAIN image.data |->
            IF rows[1] < k /\ k <= rows[1] + Len(iters)
            THEN [image.data[k] EXCEPT !.iterations = iters[k - rows[1]]]
            ELSE image.data[k]]]

\* MandelImage::set_iterations, rows = <<start, end>>
set_iterations(image, rows, iters) ==
    LET start_index == rows[1] * image.width
    IN  [image EXCEPT !.data =
            [k \in DOMAIN image.data |->
                IF start_index < k /\ k <= start_index + Len(iters)
                THEN [image.data[k] EXCEPT !.iterations = iters[k - start_index]]
                ELSE image.data[k]]]

----------------------------------------------------------------------------
(* mandelbrot.rs: the escape-time evaluator                                *)

\* f64::powi(2)
powi2(x) == FMul(x, x)

\* Complex::norm, the square root of re^2 + im^2
norm(z) == FSqrt(FAdd(FMul(z.re, z.re), FMul(z.im, z.im)))

\* Complex multiplication and addition
CMul(a, b) ==
    Complex(FSub(FMul(a.re, b.re), FMul(a.im, b.im)),
            FAdd(FMul(a.re, b.im), FMul(a.im, b.re)))

CAdd(a, b) == Complex(FAdd(a.re, b.re), FAdd(a.im, b.im))

\* in_set: the main cardioid and the period-2 bulb
in_set(z) ==
    LET p == FSqrt(FAdd(powi2(FSub(z.re, Lit(1, 4))), powi2(z.im)))
    IN  IF FLe(z.re, FAdd(FSub(p, FMul(Two, powi2(p))), Lit(1, 4)))
        THEN TRUE
        ELSE FLe(FAdd(powi2(FAdd(z.re, One)), powi2(z.im)), Lit(1, 16))

RECURSIVE mandel_loop(_, _, _, _)

\* mandel_loop with the budget test off by one.
mandel_loop_one_more(c, next, iter, max_iter) ==
    IF FLt(norm(next), Two) /\ iter <= max_iter
    THEN mandel_loop(c, CAdd(CMul(next, next), c), iter + 1, max_iter)
    ELSE iter

\* The while loop of mandel: next and iter after the loop has stopped.
mandel_loop(c, next, iter, max_iter) ==
    IF FLt(norm(next), Two) /\ iter < max_iter
    THEN mandel_loop(c, CAdd(CMul(next, next), c), iter + 1, max_iter)
    ELSE iter

\* mandel
mandel(c, max_iter) ==
    IF in_set(c) THEN max_iter
    ELSE mandel_loop(c, Complex(Zero, Zero), 0, max_iter)

----------------------------------------------------------------------------
(* mandelbrot.rs: image generation and histogram equalization              *)

\* _generate_image: every pixel gets mandel of its own coordinates.
_generate_image(t, image) ==
    [image EXCEPT !.data =
        [k \in DOMAIN image.data |->
            [image.data[k] EXCEPT !.iterations =
                mandel(pos_to_complex(t, image.data[k].x, image.data[k].y),
                       image.max_iterations)]]]

\* Rows with the last worker given rows_per_thread rows like the others.
Rows_no_remainder(t, count, height) ==
    << (height \div count) * t, (height \div count) * (t + 1) >>

\* generate_image_thread, lines 71-77: the rows <<start, end>> (end excluded)
\* handed to worker t of count workers for an image of the given height.
Rows(t, count, height) ==
    LET rows_per_thread == height \div count
    IN  IF t < count - 1
        THEN << rows_per_thread * t, rows_per_thread * (t + 1) >>
        ELSE << rows_per_thread * t, height >>

\* generate_image_thread, lines 81-90: the vector a worker fills for its rows.
WorkerIterations(trans, rows, width, max_iter) ==
    [k \in 1..((rows[2] - rows[1]) * width) |->
        mandel(pos_to_complex(trans, (k - 1) % width, rows[1] + (k - 1) \div width),
               max_iter)]

\* equalize_image, lines 115-119: the number of pixels with v iterations.
iteration_counts(image, v) ==
    Cardinality({k \in DOMAIN image.data : image.data[k].iterations = v})

\* equalize_image, lines 121-129: the running sum of the counts below
\* max_iterations; the entry of max_iterations itself stays 0.
RECURSIVE cumulative_distribution(_, _)
cumulative_distribution(image, i) ==
    IF i >= image.max_iterations THEN 0
    ELSE IF i = 0 THEN iteration_counts(image, 0)
    ELSE cumulative_distribution(image, i - 1) + iteration_counts(image, i)

\* equalize_image, lines 132-135: the sum of the first n counts.
RECURSIVE sum_counts(_, _)
sum_counts(image, n) ==
    IF n = 0 THEN 0 ELSE sum_counts(image, n - 1) + iteration_counts(image, n - 1)

\* equalize_image, line 137
nominator(image) ==
    sum_counts(image, image.max_iterations) - cumulative_distribution(image, 0)

\* equalize_image, lines 142-143: the quotient hist divides out.
hist_quotient(image, n) ==
    FDiv(FromInt(cumulative_distribution(image, n) - cumulative_distribution(image, 0)),
         FromInt(nominator(image)))

\* hist scaled by max_iterations instead of max_iterations - 1.
hist_full_scale(image, n) ==
    IF n = image.max_iterations THEN n
    ELSE RoundAsU32(FMul(hist_quotient(image, n), FromInt(image.max_iterations)))

\* equalize_image, lines 138-147: the closure hist
hist(image, n) ==
    IF n = image.max_iterations THEN n
    ELSE RoundAsU32(FMul(hist_quotient(image, n), FromInt(image.max_iterations - 1)))

\* equalize_image, lines 138-151: hist is called for every i in 0..size and
\* divides by nominator for every i below max_iterations.
divides_by_zero(image) ==
    \E i \in 0..image.max_iterations :
        i # image.max_iterations /\ nominator(image) = 0

\* equalize_image, lines 149-165
equalize_image(image) ==
    LET adjusted == [i \in 0..image.max_iterations |-> hist(image, i)]
    IN  [image EXCEPT !.data =
            [k \in DOMAIN image.data |->
                [image.data[k] EXCEPT !.iterations_equalized =
                    adjusted[image.data[k].iterations]]]]

----------------------------------------------------------------------------
(* Bounds of the model                                                     *)

\* Image widths, and heights 0..MaxHeight.
Widths == {1, 2}

MaxHeight == 3

\* max_iterations is 0..MaxIter.
MaxIter == 3

\* The worker count is 1..MaxThreads (the program is built with 12).
MaxThreads == 2

\* zoom, center_at and reset calls per behaviour of Spec, and of ViewSpec.
MaxViewOps == 1

MaxZooms == 3

\* The zoom factors of the key bindings, 2.0 and 0.5, each as
\* <<numerator, denominator>>.
KeyFactors == { <<2, 1>>, <<1, 2>> }

\* The zoom factors of the key bindings and of test_zoom, which uses 5.0.
Factors == KeyFactors \cup { <<5, 1>> }

\* The pixels clicked to re-center the view.
Clicks(window_size) ==
    { <<0, 0>>, << window_size[1] - 1, Max(window_size[2] - 1, 0) >> }

\* The window of the unit tests of types.rs, besides the small ones.
TestWindow == << 200, 300 >>

----------------------------------------------------------------------------
(* State                                                                   *)

VARIABLES
    transform,     \* the caller's Transform
    image,         \* the caller's MandelImage
    thread_count,  \* generate_image_thread's thread_count
    pc,            \* the calling thread: "idle", in generate_image_thread at
                   \* "spawn" or "gather", or "returned" from it just now
    call,          \* the locals of the running generate_image_thread call
    workers,       \* the spawned threads: state and rows
    chan,          \* the mpsc channel: messages sent and not yet received
    written,       \* history: the cells set_iterations wrote in this call
    div0,          \* history: equalize_image divided by nominator 0 since the
                   \* image was last generated
    zoomed,        \* history: the factors of the zoom calls since new/reset
    budget         \* zoom/center_at/reset calls left

vars == << transform, image, thread_count, pc, call, workers, chan,
           written, div0, zoomed, budget >>

NoCall == [trans |-> Transform_new(<<1, 0>>), width |-> 0, height |-> 0,
           max_iter |-> 0, t |-> 0, got |-> 0]

Unborn == [st |-> "unborn", rows |-> <<0, 0>>]

NoWorkers == [t \in 0..(thread_count - 1) |-> Unborn]

Init ==
    /\ \E w \in Widths, h \in 0..MaxHeight, m \in 0..MaxIter :
          /\ transform = Transform_new(<<w, h>>)
          /\ image = MandelImage_new(w, h, m)
    /\ thread_count \in 1..MaxThreads
    /\ pc = "idle"
    /\ call = NoCall
    /\ workers = NoWorkers
    /\ chan = <<>>
    /\ written = {}
    /\ div0 = FALSE
    /\ zoomed = <<>>
    /\ budget = MaxViewOps

\* The Transform alone, as the unit tests of types.rs use it.
InitView ==
    /\ \E ws \in (Widths \X (0..MaxHeight)) \cup {TestWindow} :
          transform = Transform_new(ws)
    /\ image = MandelImage_new(0, 0, 0)
    /\ thread_count = 1
    /\ pc = "idle"
    /\ call = NoCall
    /\ workers = NoWorkers
    /\ chan = <<>>
    /\ written = {}
    /\ div0 = FALSE
    /\ zoomed = <<>>
    /\ budget = MaxZooms

----------------------------------------------------------------------------
(* The caller's view operations                                            *)

\* The calling thread is between two calls.
AtCaller == pc \in {"idle", "returned"}

Zoom(f) ==
    /\ AtCaller /\ budget > 0
    /\ transform' = zoom(transform, Lit(f[1], f[2]))
    /\ zoomed' = Append(zoomed, f)
    /\ budget' = budget - 1
    /\ pc' = "idle"
    /\ UNCHANGED << image, thread_count, call, workers, chan, written, div0 >>

\* main.rs, line 345: center the view at the clicked pixel.
CenterAt(p) ==
    /\ AtCaller /\ budget > 0
    /\ transform' = center_at(transform, pos_to_complex(transform, p[1], p[2]))
    /\ budget' = budget - 1
    /\ pc' = "idle"
    /\ UNCHANGED << image, thread_count, call, workers, chan, written, div0, zoomed >>

Reset ==
    /\ AtCaller /\ budget > 0
    /\ transform' = reset(transform)
    /\ zoomed' = <<>>
    /\ budget' = budget - 1
    /\ pc' = "idle"
    /\ UNCHANGED << image, thread_count, call, workers, chan, written, div0 >>

----------------------------------------------------------------------------
(* generate_image_thread                                                   *)

Threads == 0..(thread_count - 1)

\* Lines 62-71: the call begins; the transform is cloned, the sizes copied.
GenerateStart ==
    /\ AtCaller
    /\ pc' = "spawn"
    /\ call' = [trans |-> transform, width |-> image.width, height |-> image.height,
                max_iter |-> image.max_iterations, t |-> 0, got |-> 0]
    /\ workers' = NoWorkers
    /\ chan' = <<>>
    /\ written' = {}
    /\ div0' = FALSE
    /\ UNCHANGED << transform, image, thread_count, zoomed, budget >>

\* Lines 72-94: one turn of the spawning loop.
Spawn ==
    /\ pc = "spawn"
    /\ workers' = [workers EXCEPT ![call.t] =
                      [st |-> "running", rows |-> Rows(call.t, thread_count, call.height)]]
    /\ call' = [call EXCEPT !.t = call.t + 1]
    /\ pc' = IF call.t + 1 < thread_count THEN "spawn" ELSE "gather"
    /\ UNCHANGED << transform, image, thread_count, chan, written, div0, zoomed, budget >>

\* The cells set_iterations(rows, iters) writes.
CellsOf(rows, iters, width) ==
    { k \in 1..(rows[1] * width + Len(iters)) : k > rows[1] * width }

\* Worker writing its vector into the image itself before it sends it.
Worker_writes_image(t) ==
    /\ t \in Threads
    /\ workers[t].st = "running"
    /\ chan' = Append(chan, [rows |-> workers[t].rows,
                             iterations |-> WorkerIterations(call.trans, workers[t].rows,
                                                             call.width, call.max_iter)])
    /\ workers' = [workers EXCEPT ![t].st = "exited"]
    /\ image' = set_iterations(image, workers[t].rows,
                               WorkerIterations(call.trans, workers[t].rows,
                                                call.width, call.max_iter))
    /\ written' = written \cup CellsOf(workers[t].rows,
                                       WorkerIterations(call.trans, workers[t].rows,
                                                        call.width, call.max_iter),
                                       image.width)
    /\ UNCHANGED << transform, thread_count, pc, call, div0, zoomed, budget >>

\* Lines 80-93, the closure of worker t: it fills its private vector, sends
\* its rows and the vector, and ends.  Nothing but the send is visible to
\* another thread, so the closure is one step.
Worker(t) ==
    /\ t \in Threads
    /\ workers[t].st = "running"
    /\ chan' = Append(chan, [rows |-> workers[t].rows,
                             iterations |-> WorkerIterations(call.trans, workers[t].rows,
                                                             call.width, call.max_iter)])
    /\ workers' = [workers EXCEPT ![t].st = "exited"]
    /\ UNCHANGED << transform, image, thread_count, pc, call, written, div0,
                    zoomed, budget >>

\* Lines 96-100: one turn of the receiving loop.  recv blocks while the
\* channel is empty; it cannot fail, the caller's own tx being alive.
Recv ==
    /\ pc = "gather" /\ call.got < thread_count
    /\ chan # <<>>
    /\ image' = set_iterations(image, Head(chan).rows, Head(chan).iterations)
    /\ written' = written \cup CellsOf(Head(chan).rows, Head(chan).iterations, image.width)
    /\ chan' = Tail(chan)
    /\ call' = [call EXCEPT !.got = call.got + 1]
    /\ UNCHANGED << transform, thread_count, pc, workers, div0, zoomed, budget >>

\* GenerateReturn waiting for one result more than there are workers.
GenerateReturn_one_more ==
    /\ pc = "gather" /\ call.got > thread_count
    /\ pc' = "returned"
    /\ call' = NoCall
    /\ workers' = NoWorkers
    /\ UNCHANGED << transform, image, thread_count, chan, written, div0, zoomed, budget >>

\* GenerateReturn with a receiving loop one turn short.
GenerateReturn_one_short ==
    /\ pc = "gather" /\ call.got >= thread_count - 1
    /\ pc' = "returned"
    /\ call' = NoCall
    /\ workers' = NoWorkers
    /\ UNCHANGED << transform, image, thread_count, chan, written, div0, zoomed, budget >>

\* Lines 102-108: the receiving loop is over, the call returns.
GenerateReturn ==
    /\ pc = "gather" /\ call.got >= thread_count
    /\ pc' = "returned"
    /\ call' = NoCall
    /\ workers' = NoWorkers
    /\ UNCHANGED << transform, image, thread_count, chan, written, div0, zoomed, budget >>

\* A fault: worker t dies before its send (line 92) has happened.
WorkerPanic(t) ==
    /\ t \in Threads
    /\ workers[t].st = "running"
    /\ workers' = [workers EXCEPT ![t].st = "panicked"]
    /\ UNCHANGED << transform, image, thread_count, pc, call, chan, written, div0,
                    zoomed, budget >>

----------------------------------------------------------------------------
(* _generate_image and equalize_image, both single-threaded                *)

GenerateSerial ==
    /\ AtCaller
    /\ image' = _generate_image(transform, image)
    /\ written' = DOMAIN image.data
    /\ div0' = FALSE
    /\ pc' = "idle"
    /\ UNCHANGED << transform, thread_count, call, workers, chan, zoomed, budget >>

Equalize ==
    /\ AtCaller
    /\ image' = equalize_image(image)
    /\ div0' = divides_by_zero(image)
    /\ pc' = "idle"
    /\ UNCHANGED << transform, thread_count, call, workers, chan, written, zoomed, budget >>

----------------------------------------------------------------------------
(* Specifications                                                          *)

Next ==
    \/ \E f \in KeyFactors : Zoom(f)
    \/ \E p \in Clicks(transform.window_size) : CenterAt(p)
    \/ Reset
    \/ GenerateStart
    \/ Spawn
    \/ \E t \in Threads : Worker(t)
    \/ Recv
    \/ GenerateReturn
    \/ GenerateSerial
    \/ Equalize

\* The program.
Spec == Init /\ [][Next]_vars

\* Generation calls alone, one after the other.
NextGenerate ==
    \/ GenerateStart
    \/ Spawn
    \/ \E t \in Threads : Worker(t)
    \/ Recv
    \/ GenerateReturn

\* Worker t is spawned and has not ended.
Running(t) == t \in Threads /\ workers[t].st = "running"

\* The scheduling of the threads: a spawned worker keeps running until it
\* has sent, and the calling thread keeps running its loops.  Worker(t) is
\* enabled exactly when Running(t) holds and ends Running(t), so weak
\* fairness of Worker(t) is the formula []<>~Running(t), which is written
\* here in that form.
Fairness ==
    /\ WF_vars(Spawn)
    /\ WF_vars(Recv)
    /\ WF_vars(GenerateReturn)
    /\ \A t \in 0..(MaxThreads - 1) : []<>~Running(t)

FairSpec == Init /\ [][NextGenerate]_vars /\ Fairness

\* The program with workers that may die.
NextFault == Next \/ \E t \in Threads : WorkerPanic(t)

FaultSpec == Init /\ [][NextFault]_vars

\* The Transform alone.
NextView ==
    \/ \E f \in Factors : Zoom(f)
    \/ \E p \in Clicks(transform.window_size) : CenterAt(p)
    \/ Reset

ViewSpec == InitView /\ [][NextView]_vars

----------------------------------------------------------------------------
(* Claims                                                                  *)

\* C1: when generate_image_thread has returned, whatever the worker count
\* and the order in which the workers delivered, the image is cell by cell
\* the one _generate_image produces for the same transform and image.
C1_ParallelEqualsSerial ==
    pc = "returned" => image = _generate_image(transform, image)

\* C1 witness: a call with several workers has returned and left an image of
\* several rows and columns whose cells do not all hold the same count.
C1_Witness ==
    /\ pc = "returned" /\ thread_count >= 2
    /\ image.width >= 2 /\ image.height >= 2
    /\ \E j, k \in DOMAIN image.data : image.data[j].iterations # image.data[k].iterations

\* The rows of worker t, once it is spawned.
RowsOf(t) == workers[t].rows

\* C2: once the workers are spawned their row ranges partition 0..height:
\* each range lies within 0..height, each row is in exactly one range, the
\* ranges follow one another without a gap, all ranges but the last have
\* the same length, and the last is longer by less than the worker count.
C2_RowsPartition ==
    pc = "gather" =>
        /\ \A t \in Threads :
              0 <= RowsOf(t)[1] /\ RowsOf(t)[1] <= RowsOf(t)[2]
                                /\ RowsOf(t)[2] <= image.height
        /\ \A y \in 0..(image.height - 1) :
              Cardinality({t \in Threads : RowsOf(t)[1] <= y /\ y < RowsOf(t)[2]}) = 1
        /\ RowsOf(0)[1] = 0
        /\ RowsOf(thread_count - 1)[2] = image.height
        /\ \A t \in Threads : t > 0 => RowsOf(t)[1] = RowsOf(t - 1)[2]
        /\ \A t \in Threads :
              LET len(u) == RowsOf(u)[2] - RowsOf(u)[1]
              IN  IF t < thread_count - 1
                  THEN len(t) = len(0)
                  ELSE thread_count > 1 =>
                          len(t) - len(0) \in 0..(thread_count - 1)

\* C2 witness: the workers are spawned for a height that the worker count
\* does not divide and that leaves every worker at least one row.
C2_Witness ==
    /\ pc = "gather" /\ thread_count >= 2
    /\ image.height > thread_count
    /\ image.height % thread_count # 0

\* C2 witness for fewer rows than workers.
C2_WitnessShort ==
    /\ pc = "gather" /\ image.height > 0 /\ image.height < thread_count

\* C3: generate_image_thread returns only when the result of each of the
\* workers has been received and written: at the step that returns every
\* worker has sent, the channel is empty, thread_count results have been
\* received and every cell of the image has been written in this call.
C3_ReturnsAfterAllWritten ==
    [][(pc = "gather" /\ pc' = "returned") =>
          /\ call.got = thread_count
          /\ chan = <<>>
          /\ \A t \in Threads : workers[t].st = "exited"
          /\ written = DOMAIN image.data
          /\ image' = image]_vars

\* C3 witness: a call with several workers has returned, on an image that
\* has cells, with every cell written.
C3_Witness ==
    /\ pc = "returned" /\ thread_count >= 2
    /\ image.data # <<>>
    /\ written = DOMAIN image.data

\* C4: a worker that dies without delivering makes the call end with an
\* error reported to the caller; the caller is never left inside the call
\* waiting for a result that no worker is left to send.
C4_FailureReported ==
    ~ ( /\ pc = "gather" /\ call.got < thread_count /\ chan = <<>>
        /\ \E t \in Threads : workers[t].st = "panicked"
        /\ \A t \in Threads : workers[t].st \in {"exited", "panicked"} )

\* C5: a generation call that has started returns, and no vector a worker
\* sent holds a count above max_iter: the escape loop made at most max_iter
\* steps.
C5_GenerationCompletes ==
    /\ (pc = "spawn") ~> (pc = "returned")
    /\ [](\A i \in DOMAIN chan : \A k \in DOMAIN chan[i].iterations :
             chan[i].iterations[k] <= call.max_iter)

\* C5 witness: a call has returned in which a pixel used up its whole
\* budget of at least two steps and another escaped before.
C5_Witness ==
    /\ pc = "returned" /\ image.max_iterations >= 2
    /\ \E k \in DOMAIN image.data : image.data[k].iterations = image.max_iterations
    /\ \E k \in DOMAIN image.data : image.data[k].iterations < image.max_iterations

\* C6: every cell's iterations is within 0..max_iterations, in every state.
C6_IterationsInRange ==
    \A k \in DOMAIN image.data : image.data[k].iterations \in 0..image.max_iterations

\* C6 witness: after generating and equalizing, the image holds a cell at
\* max_iterations and a cell that escaped after at least one step.
C6_Witness ==
    /\ AtCaller
    /\ \E k \in DOMAIN image.data : image.data[k].iterations = image.max_iterations
    /\ \E k \in DOMAIN image.data :
          image.data[k].iterations > 0 /\ image.data[k].iterations < image.max_iterations
    /\ \E k \in DOMAIN image.data : image.data[k].iterations_equalized > 0

\* C7: for the image of every state, the table equalize_image builds is
\* monotonic non-decreasing, stays within 0..max_iterations, maps
\* max_iterations to itself and maps nothing else to max_iterations.
C7_EqualizeMapping ==
    LET m == image.max_iterations
    IN  /\ \A a \in 1..m : hist(image, a - 1) <= hist(image, a)
        /\ \A a \in 0..m : hist(image, a) \in 0..m
        /\ hist(image, m) = m
        /\ \A a \in 0..m : a < m => hist(image, a) < m

\* C7 witness: an equalized image with a non-zero nominator that holds an
\* in-set cell and escaping cells mapped to different values.
C7_Witness ==
    /\ AtCaller /\ nominator(image) > 0
    /\ \A k \in DOMAIN image.data :
          image.data[k].iterations_equalized = hist(image, image.data[k].iterations)
    /\ \E k \in DOMAIN image.data : image.data[k].iterations = image.max_iterations
    /\ \E j, k \in DOMAIN image.data :
          /\ image.data[j].iterations < image.data[k].iterations
          /\ image.data[k].iterations < image.max_iterations
          /\ image.data[j].iterations_equalized < image.data[k].iterations_equalized

\* C8: equalize_image never evaluates its division with nominator 0.
C8_DivisionGuarded == ~div0

\* The state of the image apart from the iterations of its cells.
OnlyIterationsChange ==
    /\ image'.width = image.width /\ image'.height = image.height
    /\ image'.max_iterations = image.max_iterations
    /\ DOMAIN image'.data = DOMAIN image.data
    /\ \A k \in DOMAIN image.data :
          /\ image'.data[k].x = image.data[k].x
          /\ image'.data[k].y = image.data[k].y
          /\ image'.data[k].iterations_equalized = image.data[k].iterations_equalized

\* The state of the image apart from the iterations_equalized of its cells,
\* and iterations_equalized set in every cell to the table entry of the
\* cell's iterations.
OnlyEqualizedChanges ==
    /\ image'.width = image.width /\ image'.height = image.height
    /\ image'.max_iterations = image.max_iterations
    /\ DOMAIN image'.data = DOMAIN image.data
    /\ \A k \in DOMAIN image.data :
          /\ image'.data[k].x = image.data[k].x
          /\ image'.data[k].y = image.data[k].y
          /\ image'.data[k].iterations = image.data[k].iterations
          /\ image'.data[k].iterations_equalized = hist(image, image.data[k].iterations)

\* A step of generate_image_thread or of _generate_image.
GenerationStep == pc' \in {"spawn", "gather"} \/ pc = "gather" \/ GenerateSerial

\* C9: a step of generate_image_thread or of _generate_image changes nothing
\* of the image but the iterations of cells; a step of equalize_image changes
\* nothing but iterations_equalized, which it sets in every cell to the
\* table entry of the cell's iterations.
C9_PassesWriteOwnField ==
    [][ /\ OnlyIterationsChange \/ ~GenerationStep
        /\ OnlyEqualizedChanges \/ ~Equalize ]_vars

\* C9 witness: generate_image_thread has returned and a cell still holds the
\* iterations_equalized of an earlier frame, which is not the table entry of
\* its new iterations.
C9_Witness ==
    /\ pc = "returned"
    /\ \E k \in DOMAIN image.data :
          /\ image.data[k].iterations_equalized > 0
          /\ image.data[k].iterations_equalized # hist(image, image.data[k].iterations)

\* The exact product of the factors in zoomed, as <<numerator, denominator>>.
RECURSIVE Product(_)
Product(fs) ==
    IF fs = <<>> THEN <<1, 1>>
    ELSE << Head(fs)[1] * Product(Tail(fs))[1], Head(fs)[2] * Product(Tail(fs))[2] >>

\* The float nearest to the exact product of the factors in zoomed.
ProductValue == FDiv(FromInt(Product(zoomed)[1]), FromInt(Product(zoomed)[2]))

WithinRounding(rel) ==
    LET zf == zoom_factor(transform)
        N  == Product(zoomed)[1]
        D  == Product(zoomed)[2]
        up == 2^(Max(zf.e, 0))
        dn == 2^(Max(-zf.e, 0))
    IN  /\ IsFin(zf)
        /\ Abs(zf.m * up * D - N * dn) * 2^Precision <= rel * N * dn

\* Every factor in zoomed is a power of two.
PowersOfTwo == \A i \in DOMAIN zoomed : zoomed[i] \in { <<2, 1>>, <<1, 2>> }

\* test_zoom: at the window of the test, zoom(2.0), zoom(5.0), zoom(0.5)
\* give zoom_factor() 2, then 10, then 5.
TestZoomValues ==
    transform.window_size = TestWindow =>
        /\ zoomed = << <<2, 1>> >> => zoom_factor(transform) = FromInt(2)
        /\ zoomed = << <<2, 1>>, <<5, 1>> >> => zoom_factor(transform) = FromInt(10)
        /\ zoomed = << <<2, 1>>, <<5, 1>>, <<1, 2>> >> => zoom_factor(transform) = FromInt(5)

TestPixels == { <<150, 250>>, <<180, 380>>, <<30, 380>>, <<30, 11>> }

\* The pixels converted: every pixel of a small viewport; for the window of
\* the unit tests the pixels of test_transforms, the corners and two more.
Pixels(ws) ==
    IF ws = TestWindow
    THEN TestPixels \cup { <<0, 0>>, <<199, 299>>, <<0, 263>>, <<2, 0>> }
    ELSE (0..(ws[1] - 1)) \X (0..(ws[2] - 1))

\* Pixel p converted to a complex number and back.
RoundTrip(p) == _complex_to_point(transform, pos_to_complex(transform, p[1], p[2]))

CeilAbs(x) ==
    IF x.e >= 0 THEN Abs(x.m) * 2^(x.e)
    ELSE IF -x.e >= 30 THEN Sign(Abs(x.m))
    ELSE (Abs(x.m) + 2^(-x.e) - 1) \div 2^(-x.e)

\* The distance d between a coordinate and its round trip is below one pixel
\* plus the rounding of the four operations on numbers of magnitude at most
\* span: d - 1 < 5 * span * 2^(-Precision).
WithinTruncationAndRounding(d, span) == (d - 1) * 2^Precision < 5 * span

CenterPixel(ws) == << ws[1] \div 2, ws[2] \div 2 >>

\* The complex number of the viewport-centre pixel under transform t.
CenterPoint(t) ==
    pos_to_complex(t, CenterPixel(t.window_size)[1], CenterPixel(t.window_size)[2])

\* |x| * 2^Precision <= n, for a float x and an integer n >= 0.
AtMostUlps(x, n) ==
    /\ IsFin(x)
    /\ IF x.m = 0 THEN TRUE
       ELSE IF x.e + Precision >= 0
            THEN x.e + Precision <= 18 /\ Abs(x.m) * 2^(x.e + Precision) <= n
            ELSE -(x.e + Precision) >= 18 \/ Abs(x.m) <= n * 2^(-(x.e + Precision))

\* The complex numbers a and b are the same point of the view t up to the
\* rounding of the operations that produced them: measured in pixels of t,
\* each coordinate differs by at most 5 * (|offset| + size) * 2^(-Precision).
SamePoint(t, a, b) ==
    /\ AtMostUlps(FMul(FSub(a.re, b.re), t.scale),
                  5 * (CeilAbs(t.x) + t.window_size[1]))
    /\ AtMostUlps(FMul(FSub(a.im, b.im), t.scale),
                  5 * (CeilAbs(t.y) + t.window_size[2]))

\* C12: zoom leaves the complex number of the viewport-centre pixel where it
\* was, and center_at(z) makes it z and leaves scale alone, the equalities
\* taken up to floating-point rounding.
C12_CenterAnchored ==
    [][ /\ (\E f \in Factors : Zoom(f)) =>
               SamePoint(transform', CenterPoint(transform'), CenterPoint(transform))
        /\ \A p \in Clicks(transform.window_size) :
               CenterAt(p) =>
                   /\ transform'.scale = transform.scale
                   /\ SamePoint(transform', CenterPoint(transform'),
                                pos_to_complex(transform, p[1], p[2])) ]_vars

\* Width and height of the viewport are even.
EvenViewport == transform.window_size[1] % 2 = 0 /\ transform.window_size[2] % 2 = 0

\* What holds of C12: the centre is anchored in the viewports of even width
\* and height, and center_at never changes scale.
C12_EvenViewportAnchored ==
    [][ /\ ((\E f \in Factors : Zoom(f)) /\ EvenViewport) =>
               SamePoint(transform', CenterPoint(transform'), CenterPoint(transform))
        /\ \A p \in Clicks(transform.window_size) :
               CenterAt(p) =>
                   /\ transform'.scale = transform.scale
                   /\ EvenViewport =>
                          SamePoint(transform', CenterPoint(transform'),
                                    pos_to_complex(transform, p[1], p[2])) ]_vars

----------------------------------------------------------------------------
(* C13: who writes the image during generate_image_thread, and when        *)

InCall == pc \in {"spawn", "gather"}

\* C13 as stated: during a generate call no cell of the image is written
\* before the results of all the workers have been received.
C13_WrittenAfterAllReceived ==
    (InCall /\ written # {}) => call.got = thread_count

\* The workers whose result the caller has received: they have sent it and
\* it is no longer in the channel.  Workers with the same rows have no rows.
ReceivedFrom ==
    { t \in Threads : /\ workers[t].st = "exited"
                      /\ \A i \in DOMAIN chan : chan[i].rows # RowsOf(t) }

\* The cells of the rows of worker t.
CellsOfRows(t) ==
    { k \in DOMAIN image.data : /\ k > RowsOf(t)[1] * image.width
                                /\ k <= RowsOf(t)[2] * image.width }

\* A step of the call that changes the image is a turn of the caller's
\* receiving loop: it takes the head of the channel, counts it, leaves the
\* workers alone, and writes exactly the cells of the rows received.
ImageWrittenByCaller ==
    \/ ~InCall
    \/ image' = image /\ written' = written
    \/ /\ pc = "gather" /\ chan # <<>>
       /\ chan' = Tail(chan)
       /\ call'.got = call.got + 1
       /\ workers' = workers
       /\ OnlyIterationsChange
       /\ written' = written \cup CellsOf(Head(chan).rows, Head(chan).iterations, image.width)
       /\ \A k \in DOMAIN image.data :
              IF k \in CellsOf(Head(chan).rows, Head(chan).iterations, image.width)
              THEN image'.data[k].iterations =
                       Head(chan).iterations[k - Head(chan).rows[1] * image.width]
              ELSE image'.data[k].iterations = image.data[k].iterations

\* C13, amended: during a generate call the image is written only by the
\* caller's receiving loop, and the cells of a worker's rows only once that
\* worker's result has been received (results are written one by one as
\* they arrive, not after all of them); a worker's step writes no cell; and
\* the workers compute from the transform and max_iterations the call
\* copied at its start, which the caller's own do not leave during the call.
C13_WrittenOnlyOnReceipt ==
    /\ [](InCall =>
             /\ call.trans = transform
             /\ call.max_iter = image.max_iterations
             /\ call.width = image.width /\ call.height = image.height
             /\ written = UNION { CellsOfRows(t) : t \in ReceivedFrom })
    /\ [][ImageWrittenByCaller]_vars

\* A call in which the results of some but not all workers have been
\* received and written, while another worker is still computing.
C13_Witness ==
    /\ pc = "gather"
    /\ call.got > 0 /\ call.got < thread_count
    /\ written # {} /\ written # DOMAIN image.data
    /\ written = UNION { CellsOfRows(t) : t \in ReceivedFrom }
    /\ \E t \in Threads : workers[t].st = "running"

====
